---- MODULE Spec2Model ----
(***************************************************************************)
(* Model of the voice chat backend (src/app.py, src/utils/openai_helper.py) *)
(*                                                                         *)
(* A /process-audio request validates the upload, then runs three remote   *)
(* stages (transcribe, respond, synthesize), each wrapped by               *)
(* retry_on_exception, and finally appends the turn to the chat history    *)
(* kept in the Flask session.  The Flask session is the default signed     *)
(* cookie session: every request works on its own copy, loaded from the    *)
(* cookie the client sent, and the client stores the copy the response     *)
(* carries.                                                                *)
(*                                                                         *)
(* Strings that the code takes apart (the declared content type) are       *)
(* sequences of tokens: a token is a maximal word of the string or one of  *)
(* the separator characters ; = " and the blank.                           *)
(***************************************************************************)
EXTENDS Integers, Sequences, FiniteSets, TLC

VARIABLES
    cookie,          \* [Sessions -> chat_history]: the session cookie each client holds
    req,             \* [Requests -> record]: the /process-audio requests in flight
    pending_chunks,  \* [Sessions -> Seq(chunk)]: the chunk aggregator's buffer
    agg_state,       \* [Sessions -> {"IDLE", "ACCUMULATING", "FLUSHING"}]
    fmt              \* the content type under validation, and both validators' verdicts

vars == <<cookie, req, pending_chunks, agg_state, fmt>>

----------------------------------------------------------------------------
(* Python values and string operations, on token sequences *)

PyNone == [isNone |-> TRUE, s |-> <<>>]
PyStr(s) == [isNone |-> FALSE, s |-> s]
\* Python truthiness of None or a str
Truthy(v) == ~v.isNone /\ v.s # <<>>

SEMI == ";"
EQ == "="
DQ == "\""
SP == " "

\* str.split(sep): the parts between the separators, empty parts included
RECURSIVE Split(_, _)
Split(s, sep) ==
    IF \A i \in 1..Len(s) : s[i] # sep
    THEN <<s>>
    ELSE LET i == CHOOSE k \in 1..Len(s) :
                      s[k] = sep /\ \A j \in 1..(k - 1) : s[j] # sep
         IN <<SubSeq(s, 1, i - 1)>> \o Split(SubSeq(s, i + 1, Len(s)), sep)

\* str.strip(chars): drop leading and trailing characters of the set
RECURSIVE Strip(_, _)
Strip(s, chars) ==
    IF s = <<>> THEN s
    ELSE IF s[1] \in chars THEN Strip(Tail(s), chars)
    ELSE IF s[Len(s)] \in chars THEN Strip(SubSeq(s, 1, Len(s) - 1), chars)
    ELSE s

\* sub in s (substring test)
Contains(s, sub) ==
    \E i \in 1..(Len(s) - Len(sub) + 1) : SubSeq(s, i, i + Len(sub) - 1) = sub

\* [p for p in content_parts[1:] if 'codecs=' in p]
CodecParts(content_parts) ==
    SelectSeq(Tail(content_parts), LAMBDA p : Contains(p, <<"codecs", EQ>>))

\* codec_part[0].split('=')[1].strip('"')
CodecOf(codec_part) == Strip(Split(codec_part[1], EQ)[2], {DQ})

----------------------------------------------------------------------------
(* The route's inline content type check, src/app.py lines 85-120 *)

AllowedBaseTypes == {"audio/wav", "audio/wave", "audio/x-wav", "audio/webm"}

allowed_types ==
    [b \in AllowedBaseTypes |->
        IF b = "audio/webm" THEN PyStr(<<"opus">>) ELSE PyNone]

\* base_type = content_parts[0].strip()
BaseType(content_type) == Strip(Split(content_type, SEMI)[1], {SP})

\* base_type in allowed_types: the base type is one of the keys
BaseAllowed(base_type) == Len(base_type) = 1 /\ base_type[1] \in AllowedBaseTypes

RouteCodec(content_type) ==
    LET content_parts == Split(content_type, SEMI)
    IN IF Len(content_parts) > 1 /\ CodecParts(content_parts) # <<>>
       THEN PyStr(CodecOf(CodecParts(content_parts)))
       ELSE PyNone

\* a faulty variant: the test without the guard on the codec
RouteCodecRejectedUnguarded(expected, codec) == expected # codec

\* the codec test of line 114
RouteCodecRejected(expected, codec) == Truthy(codec) /\ expected # codec

\* "ok", or the error the route answers with status 400
RouteCheckContentType(content_type) ==
    LET base_type == BaseType(content_type)
        codec == RouteCodec(content_type)
    IN IF ~BaseAllowed(base_type) THEN "Invalid audio format"
       ELSE IF RouteCodecRejected(allowed_types[base_type[1]], codec)
            THEN "Invalid codec"
       ELSE "ok"

----------------------------------------------------------------------------
(* validate_audio_format, src/utils/openai_helper.py lines 40-73 *)

allowed_base_types ==
    [b \in AllowedBaseTypes |->
        IF b = "audio/webm" THEN {<<"opus">>} ELSE {<<>>}]

HelperCodec(content_type) ==
    LET content_parts == Split(content_type, SEMI)
    IN IF Len(content_parts) > 1 /\ CodecParts(content_parts) # <<>>
       THEN CodecOf(CodecParts(content_parts))
       ELSE <<>>

\* the codec test of line 70
HelperCodecRejected(allowed, codec) == codec # <<>> /\ codec \notin allowed

\* TRUE when validate_audio_format returns True, FALSE when it raises ValueError
validate_audio_format(content_type) ==
    LET base_type == BaseType(content_type)
        codec == HelperCodec(content_type)
    IN IF ~BaseAllowed(base_type) THEN FALSE
       ELSE ~HelperCodecRejected(allowed_base_types[base_type[1]], codec)

----------------------------------------------------------------------------
(* Sessions, entries of the chat history, and the values that travel *)

Sessions == {"s1", "s2"}
Requests == {"r1", "r2"}
Stages == {"transcribe", "respond", "synthesize"}

MaxText == 2
Texts == 1..MaxText

UserEntry(text) == [role |-> "user", content |-> text]
AssistantEntry(response) == [role |-> "assistant", content |-> response]

\* the transcript the transcription service returns for one utterance
Transcript(t) == <<"text", t>>

\* response.choices[0].message.content: the reply to the last message of the list
Reply(messages) == <<"reply", messages[Len(messages)].content[2]>>

\* f"data:audio/mp3;base64,{audio_base64}", openai_helper.py lines 255 and 270
DataUri(response) == <<"data:audio/mp3;base64", response[2]>>

NoValue == <<"none", 0>>

----------------------------------------------------------------------------
(* retry_on_exception, src/utils/openai_helper.py lines 22-38 *)

retries == 3

\* a faulty variant of the loop bound: range(retries - 1)
RetryDecisionShort(attempt, ok) ==
    IF ok THEN "return"
    ELSE IF attempt < retries - 2 THEN "retry"
    ELSE "raise"

\* What the wrapper does after attempt number `attempt` (0-based) ended:
\* return the result, go round the loop again, or leave the loop and raise
\* last_exception.
RetryDecision(attempt, ok) ==
    IF ok THEN "return"
    ELSE IF attempt < retries - 1 THEN "retry"
    ELSE "raise"

----------------------------------------------------------------------------
(* generate_response builds the message list, openai_helper.py lines 205-222 *)

KnownCategories == {"soft_skills", "interview", "personality", "general"}

\* system_messages.get(category, system_messages['general'])
SystemMessage(category) ==
    [role |-> "system",
     content |-> <<"persona", IF category \in KnownCategories THEN category ELSE "general">>]

\* a faulty variant: only the most recent exchange is sent as context
GenerateMessagesLastPair(text, category, history) ==
    [messages |-> <<SystemMessage(category)>>
                    \o (IF Len(history) > 2
                        THEN SubSeq(history, Len(history) - 1, Len(history))
                        ELSE history)
                    \o <<UserEntry(text)>>,
     history |-> history]

\* the list handed to chat.completions.create, and the history list as the
\* function leaves it
GenerateMessages(text, category, history) ==
    [messages |-> <<SystemMessage(category)>> \o history \o <<UserEntry(text)>>,
     history |-> history]

----------------------------------------------------------------------------
(* The history update of the route, src/app.py lines 181-184 *)

\* a faulty variant: history[:10]
HistoryCap == 10

TruncateHistoryHead(history) ==
    SubSeq(history, 1, IF Len(history) < HistoryCap THEN Len(history) ELSE HistoryCap)

\* history[-10:] replaced by a cut that keeps one entry less (faulty variant)
TruncateHistoryNine(history) ==
    SubSeq(history,
           IF Len(history) > HistoryCap THEN Len(history) - HistoryCap + 2 ELSE 1,
           Len(history))

\* history[-10:]
TruncateHistory(history) ==
    SubSeq(history,
           IF Len(history) > HistoryCap THEN Len(history) - HistoryCap + 1 ELSE 1,
           Len(history))

AppendTurn(history, text, response) ==
    TruncateHistory(history \o <<UserEntry(text), AssistantEntry(response)>>)

----------------------------------------------------------------------------
(* The validation of the route, src/app.py lines 63-120 *)

max_size == 10485760   \* 10 * 1024 * 1024
NoLength == -1         \* request.content_length is None (no Content-Length header)

Rejected(status, error) == [status |-> status, error |-> error]
Accepted == [status |-> 0, error |-> "none"]

\* a faulty variant: the declared content type is not looked at
RouteValidateNoType(has_audio, nonempty, file_size, content_type) ==
    IF ~has_audio THEN Rejected(400, "No audio file provided")
    ELSE IF ~nonempty THEN Rejected(400, "Empty audio file")
    ELSE IF file_size = NoLength THEN Rejected(500, "Unexpected error")
    ELSE IF file_size > max_size THEN Rejected(400, "File too large")
    ELSE Accepted

\* The checks in the order the route makes them.  has_audio: 'audio' in
\* request.files; nonempty: bool(audio_file), a FileStorage with a filename.
\* file_size > max_size raises TypeError when the length is None, which the
\* route's outer handler answers.
RouteValidate(has_audio, nonempty, file_size, content_type) ==
    IF ~has_audio THEN Rejected(400, "No audio file provided")
    ELSE IF ~nonempty THEN Rejected(400, "Empty audio file")
    ELSE IF file_size = NoLength THEN Rejected(500, "Unexpected error")
    ELSE IF file_size > max_size THEN Rejected(400, "File too large")
    ELSE IF RouteCheckContentType(content_type) # "ok"
         THEN Rejected(400, RouteCheckContentType(content_type))
    ELSE Accepted

----------------------------------------------------------------------------
(* What process_request returns, src/app.py lines 136-175 *)

StageError(stage) ==
    CASE stage = "transcribe" -> "Error processing audio"
      [] stage = "respond"    -> "Error generating response"
      [] stage = "synthesize" -> "Error converting text to speech"

\* a faulty variant: the error is returned in a tuple of three
FailureReturnTriple(stage) == <<NoValue, NoValue, StageError(stage)>>

\* return jsonify({'error': ...}), 500
FailureReturn(stage) == <<StageError(stage), 500>>

\* return text, response, audio_response
SuccessReturn(text, response, audio_response) == <<text, response, audio_response>>

\* The stage an error message names, "none" when it names no stage
StageNamedBy(error) ==
    IF \E st \in Stages : StageError(st) = error
    THEN CHOOSE st \in Stages : StageError(st) = error
    ELSE "none"

----------------------------------------------------------------------------
(* Requests *)

Absent == "<absent>"

\* request.form.get(name, default)
FormGet(value, default) == IF value = Absent THEN default ELSE value

\* The activation of retry_on_exception's wrapper that ran last: the stage it
\* wraps, the outcome of each attempt so far ("ok", "fail", or "local" for an
\* attempt that failed before it reached the remote service), last_exception
\* (the number of the attempt that raised it, 0 for None) and how it ended.
NoWrapper ==
    [stage |-> "none", outcomes |-> <<>>, last_exception |-> 0, status |-> "none"]

IdleRequest ==
    [pc |-> "idle", sid |-> "none",
     has_audio |-> FALSE, nonempty |-> FALSE, file_size |-> 0,
     content_type |-> <<>>, category |-> "none", voice_model |-> "none",
     hist0 |-> <<>>, hist |-> <<>>, modified |-> FALSE,
     wrapper |-> NoWrapper, invoked |-> {},
     stream_read |-> FALSE, submitted |-> <<>>,
     text |-> NoValue, response |-> NoValue, audio_response |-> NoValue,
     messages |-> <<>>, ret |-> <<>>, result |-> Accepted]

\* One more attempt of `stage` in the wrapper: a new activation when the stage
\* is entered, the running one on a retry.
WrapperOf(q, stage) ==
    IF q.wrapper.stage = stage /\ q.wrapper.status = "running"
    THEN q.wrapper
    ELSE [stage |-> stage, outcomes |-> <<>>, last_exception |-> 0, status |-> "running"]

\* The wrapper after an attempt with outcome `entry`
WrapperAfter(w, entry) ==
    LET attempt == Len(w.outcomes)
        decision == RetryDecision(attempt, entry = "ok")
    IN [w EXCEPT !.outcomes = Append(@, entry),
                 !.last_exception = IF entry = "ok" THEN @ ELSE attempt + 1,
                 !.status = CASE decision = "return" -> "returned"
                              [] decision = "retry"  -> "running"
                              [] decision = "raise"  -> "raised"]

(* /process-audio up to the first remote call, src/app.py lines 53-133: the
   session is opened from the cookie the client sent, and the request is
   validated. *)
ReceiveRequest(r, sid, has_audio, nonempty, file_size, content_type, category, voice_model) ==
    /\ req[r].pc = "idle"
    /\ LET verdict == RouteValidate(has_audio, nonempty, file_size, content_type)
           opened == [IdleRequest EXCEPT
                        !.sid = sid, !.has_audio = has_audio, !.nonempty = nonempty,
                        !.file_size = file_size, !.content_type = content_type,
                        !.hist0 = cookie[sid], !.hist = cookie[sid]]
       IN req' = [req EXCEPT ![r] =
                    IF verdict = Accepted
                    THEN [opened EXCEPT !.pc = "transcribe",
                                        !.category = FormGet(category, "general"),
                                        !.voice_model = FormGet(voice_model, "default")]
                    ELSE [opened EXCEPT !.pc = "done", !.result = verdict]]
    /\ UNCHANGED <<cookie, pending_chunks, agg_state, fmt>>

(* One attempt of process_audio inside the wrapper, openai_helper.py lines
   75-197, and what process_request does with its end, app.py lines 143-151.
   audio_file.save copies the upload's stream from its current position. *)
TranscribeAttempt(r, ok, t) ==
    /\ req[r].pc = "transcribe"
    /\ LET q == req[r]
           valid == validate_audio_format(q.content_type)
           payload == IF q.stream_read THEN "empty" ELSE "full"
           entry == IF ~valid THEN "local" ELSE IF ok THEN "ok" ELSE "fail"
           w == WrapperAfter(WrapperOf(q, "transcribe"), entry)
           q1 == [q EXCEPT !.wrapper = w,
                           !.invoked = IF valid THEN @ \cup {"transcribe"} ELSE @,
                           !.stream_read = @ \/ valid,
                           !.submitted = IF valid THEN Append(@, payload) ELSE @]
       IN req' = [req EXCEPT ![r] =
                    CASE w.status = "returned" ->
                           [q1 EXCEPT !.text = Transcript(t), !.pc = "respond"]
                      [] w.status = "running" -> q1
                      [] w.status = "raised" ->
                           [q1 EXCEPT !.ret = FailureReturn("transcribe"),
                                      !.pc = "returned"]]
    /\ UNCHANGED <<cookie, pending_chunks, agg_state, fmt>>

(* One attempt of generate_response, openai_helper.py lines 199-238, called
   with the session's chat_history, app.py lines 153-164 *)
RespondAttempt(r, ok) ==
    /\ req[r].pc = "respond"
    /\ LET q == req[r]
           g == GenerateMessages(q.text, q.category, q.hist)
           w == WrapperAfter(WrapperOf(q, "respond"), IF ok THEN "ok" ELSE "fail")
           q1 == [q EXCEPT !.wrapper = w,
                           !.invoked = @ \cup {"respond"},
                           !.messages = g.messages,
                           !.hist = g.history]
       IN req' = [req EXCEPT ![r] =
                    CASE w.status = "returned" ->
                           [q1 EXCEPT !.response = Reply(g.messages), !.pc = "synthesize"]
                      [] w.status = "running" -> q1
                      [] w.status = "raised" ->
                           [q1 EXCEPT !.ret = FailureReturn("respond"),
                                      !.pc = "returned"]]
    /\ UNCHANGED <<cookie, pending_chunks, agg_state, fmt>>

(* One attempt of text_to_speech, openai_helper.py lines 240-275, and the
   return of process_request, app.py lines 166-175 *)
SynthesizeAttempt(r, ok) ==
    /\ req[r].pc = "synthesize"
    /\ LET q == req[r]
           w == WrapperAfter(WrapperOf(q, "synthesize"), IF ok THEN "ok" ELSE "fail")
           q1 == [q EXCEPT !.wrapper = w, !.invoked = @ \cup {"synthesize"}]
       IN req' = [req EXCEPT ![r] =
                    CASE w.status = "returned" ->
                           [q1 EXCEPT !.audio_response = DataUri(q.response),
                                      !.ret = SuccessReturn(q.text, q.response,
                                                            DataUri(q.response)),
                                      !.pc = "returned"]
                      [] w.status = "running" -> q1
                      [] w.status = "raised" ->
                           [q1 EXCEPT !.ret = FailureReturn("synthesize"),
                                      !.pc = "returned"]]
    /\ UNCHANGED <<cookie, pending_chunks, agg_state, fmt>>

(* text, response, audio_response = asyncio.run(process_request()) with a
   tuple of three, then the history update and the answer, app.py lines
   178-194 *)
UpdateHistory(r) ==
    /\ req[r].pc = "returned"
    /\ Len(req[r].ret) = 3
    /\ req' = [req EXCEPT ![r].hist = AppendTurn(@, req[r].ret[1], req[r].ret[2]),
                          ![r].modified = TRUE,
                          ![r].result = [status |-> 200, error |-> "none"],
                          ![r].pc = "done"]
    /\ UNCHANGED <<cookie, pending_chunks, agg_state, fmt>>

(* The same line 178 with the two-element tuple of a failed stage: the
   unpacking raises ValueError, which the route's outer handler answers,
   app.py lines 195-200 *)
UnexpectedError(r) ==
    /\ req[r].pc = "returned"
    /\ Len(req[r].ret) # 3
    /\ req' = [req EXCEPT ![r].result = Rejected(500, "Unexpected error"),
                          ![r].pc = "done"]
    /\ UNCHANGED <<cookie, pending_chunks, agg_state, fmt>>

(* The response leaves: Flask saves a modified session into the cookie, and
   the client stores it *)
SendResponse(r) ==
    /\ req[r].pc = "done"
    /\ cookie' = IF req[r].modified
                 THEN [cookie EXCEPT ![req[r].sid] = req[r].hist]
                 ELSE cookie
    /\ req' = [req EXCEPT ![r] = IdleRequest]
    /\ UNCHANGED <<pending_chunks, agg_state, fmt>>

----------------------------------------------------------------------------
(* /reset-session, src/app.py lines 202-208 *)

\* a faulty variant: the histories live in state shared by all sessions
SessionClearAll(cookies, sid) == [s \in DOMAIN cookies |-> <<>>]

\* session.clear(): the session of the request loses every key, so that
\* session.get('chat_history', []) is [] from then on; the emptied session is
\* marked modified and replaces the client's cookie
SessionClear(cookies, sid) == [cookies EXCEPT ![sid] = <<>>]

\* reset(session_id) of the session store also clears the pending chunks
ClearPending(chunks, sid) == [chunks EXCEPT ![sid] = <<>>]

ResetSession(sid) ==
    /\ cookie' = SessionClear(cookie, sid)
    /\ pending_chunks' = ClearPending(pending_chunks, sid)
    /\ agg_state' = [agg_state EXCEPT ![sid] = "IDLE"]
    /\ UNCHANGED <<req, fmt>>

----------------------------------------------------------------------------
(* The chunk aggregator of a session *)

FlushThreshold == 5
MinChunkBytes == 100

Chunk(data, is_last) == [data |-> data, is_last |-> is_last]

\* flush when the count reaches the threshold or the chunk is marked last
FlushTriggered(buffer, is_last) == Len(buffer) >= FlushThreshold \/ is_last

\* a faulty variant: the oldest fragment is kept
RetainFirstAfterFlush(buffer, final) == IF final THEN <<>> ELSE <<buffer[1]>>

\* after a flush: nothing when final, else only the most recent fragment
RetainAfterFlush(buffer, final) == IF final THEN <<>> ELSE <<buffer[Len(buffer)]>>

\* A chunk arrives; one below the minimum size is rejected and leaves the
\* session as it is.  No chunk is appended while a flush is in flight.
FeedChunk(sid, data, size, is_last) ==
    /\ agg_state[sid] # "FLUSHING"
    /\ IF size < MinChunkBytes
       THEN UNCHANGED <<pending_chunks, agg_state>>
       ELSE LET buffer == Append(pending_chunks[sid], Chunk(data, is_last))
            IN /\ pending_chunks' = [pending_chunks EXCEPT ![sid] = buffer]
               /\ agg_state' = [agg_state EXCEPT ![sid] =
                                  IF FlushTriggered(buffer, is_last)
                                  THEN "FLUSHING" ELSE "ACCUMULATING"]
    /\ UNCHANGED <<cookie, req, fmt>>

\* The buffered fragments are handed over in arrival order, and the buffer is
\* cut back
Flush(sid) ==
    /\ agg_state[sid] = "FLUSHING"
    /\ LET buffer == pending_chunks[sid]
           final == buffer[Len(buffer)].is_last
       IN /\ pending_chunks' = [pending_chunks EXCEPT ![sid] =
                                  RetainAfterFlush(buffer, final)]
          /\ agg_state' = [agg_state EXCEPT ![sid] =
                             IF final THEN "IDLE" ELSE "ACCUMULATING"]
    /\ UNCHANGED <<cookie, req, fmt>>

----------------------------------------------------------------------------
(* Declared content types, and the application of both validators to one *)

MaxParams == 2

BaseForms ==
    {<<b>> : b \in AllowedBaseTypes} \cup
    {<<"audio/ogg">>, <<SP, "audio/wav", SP>>, <<>>}

ParamForms ==
    {<<"codecs", EQ, "opus">>,
     <<"codecs", EQ, "vp8">>,
     <<"codecs", EQ, DQ, "opus", DQ>>,
     <<SP, "codecs", EQ, "opus">>,
     <<"codecs", EQ>>,
     <<"charset", EQ, "utf-8">>,
     <<"x", "codecs", EQ, "opus">>}

\* the content types with n parameters
RECURSIVE WithParams(_)
WithParams(n) ==
    IF n = 0 THEN BaseForms
    ELSE {ct \o <<SEMI>> \o p : ct \in WithParams(n - 1), p \in ParamForms}

ContentTypes == UNION {WithParams(n) : n \in 0..MaxParams}

NoFormat == [content_type |-> <<>>, checked |-> FALSE, route |-> "none", helper |-> FALSE]

CheckFormat ==
    /\ ~fmt.checked
    /\ fmt' = [fmt EXCEPT !.checked = TRUE,
                          !.route = RouteCheckContentType(fmt.content_type),
                          !.helper = validate_audio_format(fmt.content_type)]
    /\ UNCHANGED <<cookie, req, pending_chunks, agg_state>>

----------------------------------------------------------------------------
(* Specifications *)

Init ==
    /\ cookie = [s \in Sessions |-> <<>>]
    /\ req = [r \in Requests |-> IdleRequest]
    /\ pending_chunks = [s \in Sessions |-> <<>>]
    /\ agg_state = [s \in Sessions |-> "IDLE"]
    /\ fmt = NoFormat

\* the inputs of /process-audio
FileSizes == {NoLength, max_size, max_size + 1}
RouteContentTypes ==
    {<<"audio/wav">>,
     <<"audio/webm", SEMI, "codecs", EQ, "opus">>,
     <<"audio/ogg">>,
     <<"audio/webm", SEMI, "codecs", EQ, "vp8">>,
     <<"audio/wav", SEMI, "codecs", EQ, "opus">>}
CategoryFields == {"interview", "coaching", Absent}
VoiceFields == {Absent}

\* One client and one session: requests of the session follow one another
Receive1 ==
    \E has_audio, nonempty \in BOOLEAN, file_size \in FileSizes,
       content_type \in RouteContentTypes,
       category \in CategoryFields, voice_model \in VoiceFields :
        ReceiveRequest("r1", "s1", has_audio, nonempty, file_size, content_type,
                       category, voice_model)
Transcribe1 == \E ok \in BOOLEAN, t \in Texts : TranscribeAttempt("r1", ok, t)
Respond1 == \E ok \in BOOLEAN : RespondAttempt("r1", ok)
Synthesize1 == \E ok \in BOOLEAN : SynthesizeAttempt("r1", ok)
Update1 == UpdateHistory("r1")
Unexpected1 == UnexpectedError("r1")
Send1 == SendResponse("r1")
Reset1 == ResetSession("s1")

Next ==
    \/ Receive1
    \/ Transcribe1
    \/ Respond1
    \/ Synthesize1
    \/ Update1
    \/ Unexpected1
    \/ Send1
    \/ Reset1

Spec == Init /\ [][Next]_vars

\* Two clients, each with its own session, and the chunk aggregator: the
\* uploads are valid, every utterance has the same transcript, and the remote
\* services answer at the first attempt
ReceiveValid(r, sid) ==
    ReceiveRequest(r, sid, TRUE, TRUE, max_size, <<"audio/wav">>, Absent, Absent)

MaxChunkData == 2
ChunkData == 1..MaxChunkData
ChunkSizes == {MinChunkBytes - 1, MinChunkBytes}

ReceiveS == \E sid \in Sessions : ReceiveValid("r1", sid)
TranscribeS == TranscribeAttempt("r1", TRUE, 1)
RespondS == RespondAttempt("r1", TRUE)
SynthesizeS == SynthesizeAttempt("r1", TRUE)
FeedS ==
    \E sid \in Sessions, size \in ChunkSizes, is_last \in BOOLEAN :
        FeedChunk(sid, 1, size, is_last)
FlushS == \E sid \in Sessions : Flush(sid)
ResetS == \E sid \in Sessions : ResetSession(sid)

NextSessions ==
    \/ ReceiveS
    \/ TranscribeS
    \/ RespondS
    \/ SynthesizeS
    \/ Update1
    \/ Send1
    \/ FeedS
    \/ FlushS
    \/ ResetS

SpecSessions == Init /\ [][NextSessions]_vars

\* The chunk aggregators of the sessions alone
FeedA ==
    \E sid \in Sessions, data \in ChunkData, size \in ChunkSizes, is_last \in BOOLEAN :
        FeedChunk(sid, data, size, is_last)

NextAggregator ==
    \/ FeedA
    \/ FlushS
    \/ ResetS

SpecAggregator == Init /\ [][NextAggregator]_vars

\* Two requests of one session that may overlap; the remote services answer
\* at the first attempt
ReceiveC == \E r \in Requests : ReceiveValid(r, "s1")
TranscribeC == \E r \in Requests, t \in Texts : TranscribeAttempt(r, TRUE, t)
RespondC == \E r \in Requests : RespondAttempt(r, TRUE)
SynthesizeC == \E r \in Requests : SynthesizeAttempt(r, TRUE)
UpdateC == \E r \in Requests : UpdateHistory(r)
SendC == \E r \in Requests : SendResponse(r)

NextConcurrent ==
    \/ ReceiveC
    \/ TranscribeC
    \/ RespondC
    \/ SynthesizeC
    \/ UpdateC
    \/ SendC

SpecConcurrent == Init /\ [][NextConcurrent]_vars

\* Every declared content type, given to both validators
InitFormat ==
    /\ cookie = [s \in Sessions |-> <<>>]
    /\ req = [r \in Requests |-> IdleRequest]
    /\ pending_chunks = [s \in Sessions |-> <<>>]
    /\ agg_state = [s \in Sessions |-> "IDLE"]
    /\ fmt \in {[NoFormat EXCEPT !.content_type = ct] : ct \in ContentTypes}

NextFormat == CheckFormat

SpecFormat == InitFormat /\ [][NextFormat]_vars

----------------------------------------------------------------------------
(* Claims *)

\* the last ten entries of a sequence, in their order
LastTen(seq) ==
    LET n == IF Len(seq) < 10 THEN Len(seq) ELSE 10
    IN [i \in 1..n |-> seq[Len(seq) - n + i]]

TurnOf(q) == <<[role |-> "user", content |-> q.text],
               [role |-> "assistant", content |-> q.response]>>

Succeeded(q) == q.pc = "done" /\ q.result.status = 200

\* C1: after the history update of a successful turn, chat_history has at
\* most 10 entries and is the last 10 entries of the history the request
\* started with, followed by the new user entry and the new assistant entry.
C1_HistoryIsLastTen ==
    \A r \in Requests :
        Succeeded(req[r]) =>
            /\ Len(req[r].hist) <= 10
            /\ req[r].hist = LastTen(req[r].hist0 \o TurnOf(req[r]))

\* a turn was appended to a full history, and an entry was evicted
C1_Witness ==
    \E r \in Requests :
        /\ Succeeded(req[r])
        /\ Len(req[r].hist0) = 10
        /\ req[r].hist # req[r].hist0
        /\ req[r].hist[1] # req[r].hist0[1]

LaterStages(stage) ==
    CASE stage = "transcribe" -> {"respond", "synthesize"}
      [] stage = "respond"    -> {"synthesize"}
      [] stage = "synthesize" -> {}

StageFailed(q) == q.wrapper.status = "raised"

\* C2: when a stage has failed on its last attempt, no later stage is invoked
\* in the request, the session's chat_history is what it was when the request
\* began, and sending the answer leaves the stored history as it is.
C2_FailureAborts ==
    /\ [](\A r \in Requests :
            StageFailed(req[r]) =>
                /\ req[r].pc \in {"returned", "done"}
                /\ req[r].invoked \cap LaterStages(req[r].wrapper.stage) = {}
                /\ req[r].hist = req[r].hist0
                /\ ~req[r].modified)
    /\ [][\A r \in Requests :
            (StageFailed(req[r]) /\ req[r].pc = "done" /\ req'[r].pc = "idle")
                => cookie' = cookie]_vars

\* the respond stage failed for good in a session with a history
C2_Witness ==
    \E r \in Requests :
        /\ StageFailed(req[r])
        /\ req[r].wrapper.stage = "respond"
        /\ req[r].pc = "done"
        /\ req[r].hist0 # <<>>

\* C3: the error answered after a stage failed on all its attempts names the
\* stage that failed.
C3_ErrorNamesStage ==
    \A r \in Requests :
        (StageFailed(req[r]) /\ req[r].pc = "done")
            => StageNamedBy(req[r].result.error) = req[r].wrapper.stage

\* C4: the wrapper attempts a stage until its first success and at most 3
\* times: a success is the last attempt and makes the wrapper return the
\* result, three failures make it raise the exception of the third attempt,
\* and fewer failures leave it running in the same stage.
StageResult(q, stage) ==
    CASE stage = "transcribe" -> q.text
      [] stage = "respond"    -> q.response
      [] stage = "synthesize" -> q.audio_response

C4_RetryUntilSuccessAtMostThree ==
    \A r \in Requests :
        LET w == req[r].wrapper
            n == Len(w.outcomes)
        IN w.stage # "none" =>
            /\ n \in 1..3
            /\ \A i \in 1..(n - 1) : w.outcomes[i] # "ok"
            /\ (w.status = "returned") <=> (w.outcomes[n] = "ok")
            /\ (w.status = "raised") <=> (n = 3 /\ w.outcomes[n] # "ok")
            /\ (w.status = "running") <=> (n < 3 /\ w.outcomes[n] # "ok")
            /\ w.status = "raised" => w.last_exception = 3
            /\ w.status = "running" => req[r].pc = w.stage
            /\ w.status = "returned" =>
                  /\ StageResult(req[r], w.stage) # NoValue
                  /\ req[r].pc # w.stage

\* two failures, then a success at the third attempt
C4_Witness ==
    \E r \in Requests :
        /\ req[r].wrapper.outcomes = <<"fail", "fail", "ok">>
        /\ req[r].wrapper.status = "returned"
        /\ req[r].wrapper.stage = "transcribe"
        /\ req[r].text # NoValue

\* C5: a request whose audio is absent or empty, whose declared size is above
\* the ceiling, whose declared type is not supported or whose codec does not
\* fit is answered with an error before the pipeline starts (status 400, or
\* 500 when the request also declares no length): no remote service has been
\* called and the session history is as it was.
ExpectedCodec(base) == IF base = "audio/webm" THEN <<"opus">> ELSE <<>>

CodecRead(content_type) ==
    LET parts == Split(content_type, SEMI)
    IN IF Len(parts) > 1 /\ CodecParts(parts) # <<>>
       THEN CodecOf(CodecParts(parts)) ELSE <<>>

FailsValidation(q) ==
    \/ ~q.has_audio
    \/ ~q.nonempty
    \/ q.file_size > max_size
    \/ BaseType(q.content_type) \notin
          {<<"audio/wav">>, <<"audio/wave">>, <<"audio/x-wav">>, <<"audio/webm">>}
    \/ /\ CodecRead(q.content_type) # <<>>
       /\ CodecRead(q.content_type) # ExpectedCodec(BaseType(q.content_type)[1])

PersonaOf(category) ==
    IF category \in {"soft_skills", "interview", "personality", "general"}
    THEN category ELSE "general"

C7_MessagesAreSystemHistoryUser ==
    \A r \in Requests :
        "respond" \in req[r].invoked =>
            /\ req[r].messages =
                  <<[role |-> "system", content |-> <<"persona", PersonaOf(req[r].category)>>]>>
                  \o req[r].hist0
                  \o <<[role |-> "user", content |-> req[r].text]>>
            /\ req[r].pc # "done" => req[r].hist = req[r].hist0

\* a retried attempt with an unknown category and two stored exchanges
C7_Witness ==
    \E r \in Requests :
        /\ req[r].pc = "respond"
        /\ req[r].wrapper.stage = "respond"
        /\ Len(req[r].wrapper.outcomes) = 2
        /\ req[r].category = "coaching"
        /\ Len(req[r].hist0) >= 4
        /\ req[r].hist0[1] # req[r].hist0[3]

\* C8: a reset empties the chat_history and the pending chunks of its
\* session and leaves the chat_history of every other session as it was.
C8_ResetClearsOneSession ==
    [][\A s \in Sessions :
          ResetSession(s) =>
              /\ cookie'[s] = <<>>
              /\ pending_chunks'[s] = <<>>
              /\ \A o \in Sessions \ {s} : cookie'[o] = cookie[o]]_vars

\* session s1 was reset while a request of it was in flight, and session s2
\* kept its history and its chunks
C8_Witness ==
    /\ req["r1"].sid = "s1"
    /\ req["r1"].hist0 # <<>>
    /\ cookie["s1"] = <<>>
    /\ pending_chunks["s1"] = <<>>
    /\ cookie["s2"] # <<>>
    /\ pending_chunks["s2"] # <<>>

\* C9: a flush that is not final leaves exactly the last fed chunk in
\* pending_chunks, and a final flush, set off by a chunk marked last, leaves
\* pending_chunks empty.
C9_FlushRetention ==
    [][\A s \in Sessions :
          Flush(s) =>
              LET buffer == pending_chunks[s]
                  last == buffer[Len(buffer)]
              IN IF last.is_last
                 THEN pending_chunks'[s] = <<>>
                 ELSE /\ Len(buffer) = 5
                      /\ pending_chunks'[s] = <<last>>]_vars

\* five chunks are buffered, none marked last, and the flush is due
C9_Witness ==
    \E s \in Sessions :
        /\ agg_state[s] = "FLUSHING"
        /\ Len(pending_chunks[s]) = 5
        /\ ~pending_chunks[s][5].is_last
        /\ pending_chunks[s][1].data # pending_chunks[s][5].data

\* C10: a turn is appended atomically: the history a successful request is
\* about to store is the history stored at that moment followed by its own
\* turn, so that no turn stored by an overlapping request is lost.
C10_TurnsAppendedAtomically ==
    \A r \in Requests :
        Succeeded(req[r]) =>
            req[r].hist = LastTen(cookie[req[r].sid] \o TurnOf(req[r]))

\* C11: within one request, every attempt of the transcribe stage that
\* reaches the transcription service submits the full uploaded audio, the
\* same bytes as the first attempt, also after audio_file.save has read the
\* upload's stream on an earlier failed attempt.
C11_RetrySubmitsSameAudio ==
    \A r \in Requests :
        \A i \in 1..Len(req[r].submitted) :
            /\ req[r].submitted[i] = req[r].submitted[1]
            /\ req[r].submitted[i] = "full"

\* a history made of whole turns: even length, user entries at the odd
\* places, assistant entries at the even places, each assistant entry the
\* reply to the user entry before it
WellFormedHistory(h) ==
    /\ Len(h) % 2 = 0
    /\ \A i \in 1..Len(h) :
          IF i % 2 = 1
          THEN /\ h[i].role = "user"
               /\ h[i].content[1] = "text"
          ELSE /\ h[i].role = "assistant"
               /\ h[i].content = Reply(<<h[i - 1]>>)

\* C12: in every reachable state of a session, whatever the interleaving of
\* successful turns, failed turns and resets, chat_history (stored, and as
\* held by a request in progress) has even length, alternates user and
\* assistant starting with a user entry, and each assistant entry is the
\* reply to the user entry just before it; the cut to the last 10 entries
\* never splits a user/assistant pair.
C12_HistoryIsWholeTurns ==
    /\ \A s \in Sessions : WellFormedHistory(cookie[s])
    /\ \A r \in Requests : WellFormedHistory(req[r].hist)

\* a successful turn was appended to a full history: the cut evicted the
\* oldest turn, and what is left still begins with a user entry and ends
\* with the new turn
C12_Witness ==
    \E r \in Requests :
        /\ Succeeded(req[r])
        /\ Len(req[r].hist0) = 10
        /\ Len(req[r].hist) = 10
        /\ req[r].hist[1] = req[r].hist0[3]
        /\ req[r].hist[1].role = "user"
        /\ req[r].hist[10] = AssistantEntry(req[r].response)
        /\ req[r].hist[9].content # req[r].hist[1].content

====
